---- MODULE Spec2Model ----
(***************************************************************************)
(* Model of the wordzy back end: the socket game coordinator               *)
(* (src/src/sockets/game.socket.js), the HTTP joinRoom handler              *)
(* (src/src/controllers/room.controllers.js) and the authenticate handler   *)
(* (src/src/sockets/index.js).  One room id is modelled; every Map of the   *)
(* handler that is keyed by room id is modelled by its entry for that id.  *)
(* A handler is split exactly at its `await`s: one action is the database   *)
(* (or word service) call completing followed by the synchronous code up to *)
(* the next await.                                                          *)
(***************************************************************************)
EXTENDS Integers, Sequences, FiniteSets, Bags, TLC

(* ------------------------------ bounds --------------------------------- *)
MaxSessions == 2     \* session objects created in one behaviour
MaxPending == 1      \* endGame calls suspended on Player.find at once
MaxTicks == 1        \* the clock stops after MaxTicks steps
MaxInflight == 2     \* socket/HTTP handlers suspended on an await at once
MaxCalls == 2        \* membership requests (join, leave, disconnect) in one behaviour

(* -------------------------- program constants -------------------------- *)
TimeLimit == 300000  \* gameState.timeLimit
GraceMs == 300000    \* delay of the clean-up setTimeout in endGame
MaxGuesses == 6      \* attempts per player
WordLen == 5         \* length of a guess
MaxRoomPlayers == 7  \* room capacity
MinPlayers == 2      \* players needed to start

Null == -1           \* JavaScript null / undefined of a numeric field
NoConn == "none"
NoPlayer == 0

Conns == {"s1", "s2"}
TickMs == TimeLimit

(* ------------------------------- words --------------------------------- *)
LowerLetters == <<"a", "c", "e", "n", "o", "r">>
UpperLetters == <<"A", "C", "E", "N", "O", "R">>

\* String.prototype.toUpperCase, letter by letter
toUpperChar(ch) ==
    IF \E i \in 1..Len(LowerLetters) : LowerLetters[i] = ch
    THEN UpperLetters[CHOOSE i \in 1..Len(LowerLetters) : LowerLetters[i] = ch]
    ELSE ch

toUpperCase_Identity(w) == w

toUpperCase(w) == [i \in 1..Len(w) |-> toUpperChar(w[i])]

CRANE == <<"C", "R", "A", "N", "E">>
CRONE == <<"C", "R", "O", "N", "E">>
crane == <<"c", "r", "a", "n", "e">>
CRAN == <<"C", "R", "A", "N">>

\* what wordService.getRandomWord may return (always upper-cased)
TargetWords == {CRANE}

VARIABLES
    now,            \* Date.now()
    room,           \* the Room document of the room id, in the database
    conns,          \* per socket: open, socket.playerId, member of the socket.io room
    roomSockets,    \* this.roomSockets.get(roomId)
    playerSockets,  \* this.playerSockets
    handlers,       \* handlers suspended on an await
    activeGame,     \* this.activeGames.get(roomId): a session object, or 0
    sessions,       \* the gameState objects that are still referenced
    nextSid,        \* identity of the next gameState object
    timers,         \* armed setTimeout / setInterval handles
    pending,        \* endGame calls suspended on Player.find
    gameRecords,    \* Game documents saved, per session object
    io,             \* the event being handled and the events emitted by the step
    calls           \* membership requests received so far

vars == <<now, room, conns, roomSockets, playerSockets, handlers, activeGame,
          sessions, nextSid, timers, pending, gameRecords, io, calls>>

roomVars == <<room, conns, roomSockets, playerSockets, handlers>>
gameVars == <<activeGame, sessions, nextSid, timers, pending, gameRecords>>
clockVars == <<now, calls>>

(* ------------------------------ helpers -------------------------------- *)
Range(s) == {s[i] : i \in DOMAIN s}

RECURSIVE SelectIdx(_, _)
\* the indices of s, in order, that are in the set keep
SelectIdx(n, keep) ==
    IF n = 0 THEN <<>>
    ELSE IF n \in keep THEN Append(SelectIdx(n - 1, keep), n)
    ELSE SelectIdx(n - 1, keep)

\* Array.prototype.filter(p => p !== x) on a sequence of ids
RECURSIVE Without(_, _)
Without(s, x) ==
    IF s = <<>> THEN <<>>
    ELSE IF Head(s) = x THEN Without(Tail(s), x)
    ELSE <<Head(s)>> \o Without(Tail(s), x)

Falsy(x) == x = Null \/ x = 0
\* JavaScript a || b on numbers
OrElse(a, b) == IF Falsy(a) THEN b ELSE a

Ev(name, to, arg) == [ev |-> name, to |-> to, arg |-> arg]
Err_ToRoom(msg) == <<Ev("error", "room", msg)>>

\* socket.emit('error', ...): an error goes to the caller alone
Err(msg) == <<Ev("error", "caller", msg)>>
In(op, step, c, p) == [op |-> op, step |-> step, conn |-> c, player |-> p, word |-> <<>>]
InWord(op, c, p, w) == [In(op, "call", c, p) EXCEPT !.word = w]

\* an event of that name is among the events out
Emits(out, name) == \E k \in DOMAIN out : out[k].ev = name

NoRoom == [exists |-> FALSE, players |-> <<>>, owner |-> NoPlayer]

(* --------------------------- session objects --------------------------- *)
\* the player entry built by start-game / start-again
NewPlayer(pid) ==
    [playerId |-> pid, guesses |-> <<>>, isSolved |-> FALSE, solveTime |-> Null,
     solveAttempts |-> Null, failedTime |-> Null, rank |-> Null, status |-> "active"]

\* the gameState object built by start-game / start-again
NewGame(target, members, t) ==
    [targetWord |-> target, gameStatus |-> "active", gameStartTime |-> t,
     players |-> [i \in 1..Len(members) |-> NewPlayer(members[i])],
     leaderboard |-> <<>>]

\* gameState.players.find(p => p.playerId === playerId): its index, or 0
FindPlayer(g, pid) ==
    IF \E i \in DOMAIN g.players : g.players[i].playerId = pid
    THEN CHOOSE i \in DOMAIN g.players :
            /\ g.players[i].playerId = pid
            /\ \A j \in DOMAIN g.players : g.players[j].playerId = pid => i <= j
    ELSE 0

\* comparator of solved players: solve time, then attempts
CmpSolved(a, b) ==
    IF a.solveTime # b.solveTime THEN a.solveTime - b.solveTime
    ELSE a.solveAttempts - b.solveAttempts

\* comparator of failed players in endGame: longer time first
CmpFailedFinal(a, b, elapsed) ==
    OrElse(b.failedTime, OrElse(b.solveTime, elapsed))
        - OrElse(a.failedTime, OrElse(a.solveTime, elapsed))

\* comparator of failed players in updateLeaderboard
CmpFailedLive(a, b) ==
    OrElse(b.failedTime, OrElse(b.solveTime, 0))
        - OrElse(a.failedTime, OrElse(a.solveTime, 0))

\* the comparator passed to sort: "solved", "failed" (endGame) or "live"
Compare(kind, a, b, elapsed) ==
    IF kind = "solved" THEN CmpSolved(a, b)
    ELSE IF kind = "failed" THEN CmpFailedFinal(a, b, elapsed)
    ELSE CmpFailedLive(a, b)

\* Array.prototype.sort (stable) of the entries at the indices I
SortIdx(ps, I, kind, elapsed) ==
    LET Before(j, i) == \/ Compare(kind, ps[j], ps[i], elapsed) < 0
                        \/ (Compare(kind, ps[j], ps[i], elapsed) = 0 /\ j < i)
        Pos(i) == Cardinality({j \in I : Before(j, i)}) + 1
    IN [k \in 1..Cardinality(I) |-> CHOOSE i \in I : Pos(i) = k]

\* rank given to the k-th (from 1) solved player
SolvedRank(k) == k

FailedRank_NoOffset(nSolved, k) == k

\* rank given to the k-th (from 1) failed player after nSolved solved players
FailedRank(nSolved, k) == nSolved + k

ForceFailed_Everyone(p, elapsed) ==
    [p EXCEPT !.status = "failed",
              !.failedTime = elapsed,
              !.solveTime = elapsed,
              !.solveAttempts = IF Len(p.guesses) = 0 THEN MaxGuesses
                                ELSE Len(p.guesses)]

\* a player still active when endGame runs is failed on the spot
ForceFailed(p, elapsed) ==
    IF p.status = "active" /\ ~p.isSolved
    THEN [p EXCEPT !.status = "failed",
                   !.failedTime = elapsed,
                   !.solveTime = elapsed,
                   !.solveAttempts = IF Len(p.guesses) = 0 THEN MaxGuesses
                                     ELSE Len(p.guesses)]
    ELSE p

\* the part of endGame before `await Player.find`: the game with players failed and
\* ranked, and the order [...solvedPlayers, ...failedPlayers] (as indices)
EndGameSync(g, t) ==
    LET elapsed == t - g.gameStartTime
        solvedI == {i \in DOMAIN g.players : g.players[i].isSolved}
        solved == SortIdx(g.players, solvedI, "solved", elapsed)
        ps1 == [i \in DOMAIN g.players |-> ForceFailed(g.players[i], elapsed)]
        failedI == {i \in DOMAIN ps1 :
                      /\ ~ps1[i].isSolved
                      /\ (ps1[i].status = "failed" \/ Len(ps1[i].guesses) >= MaxGuesses)}
        failed == SortIdx(ps1, failedI, "failed", elapsed)
        ps2 == [i \in DOMAIN ps1 |->
                  IF \E k \in DOMAIN solved : solved[k] = i
                  THEN [ps1[i] EXCEPT !.rank =
                          SolvedRank(CHOOSE k \in DOMAIN solved : solved[k] = i)]
                  ELSE IF \E k \in DOMAIN failed : failed[k] = i
                  THEN [ps1[i] EXCEPT !.rank =
                          FailedRank(Len(solved),
                                     CHOOSE k \in DOMAIN failed : failed[k] = i)]
                  ELSE ps1[i]]
    IN [game |-> [g EXCEPT !.players = ps2], order |-> solved \o failed]

\* one row of the final leaderboard
FinalRow(p, elapsed) ==
    [rank |-> p.rank, playerId |-> p.playerId, isSolved |-> p.isSolved,
     status |-> p.status,
     solveTime |-> IF p.isSolved THEN p.solveTime
                   ELSE OrElse(p.failedTime, OrElse(p.solveTime, elapsed)),
     solveAttempts |-> OrElse(p.solveAttempts, Len(p.guesses))]

\* the part of endGame after `await Player.find`, on the gameState it captured
EndGameFinish(g, order, t) ==
    [g EXCEPT !.gameStatus = "finished",
              !.leaderboard = [k \in DOMAIN order |->
                                 FinalRow(g.players[order[k]], t - g.gameStartTime)]]

LiveLeaderboard_RanksEveryone(g) ==
    [k \in DOMAIN g.players |->
        [rank |-> k, playerId |-> g.players[k].playerId,
         isSolved |-> g.players[k].isSolved, status |-> g.players[k].status,
         solveTime |-> g.players[k].solveTime,
         solveAttempts |-> Len(g.players[k].guesses)]]

\* updateLeaderboard: the live leaderboard of the game
LiveLeaderboard(g) ==
    LET ps == g.players
        solvedI == {i \in DOMAIN ps : ps[i].isSolved}
        failedI == {i \in DOMAIN ps : ~ps[i].isSolved /\ ps[i].status = "failed"}
        activeI == {i \in DOMAIN ps : ps[i].status = "active"}
        solved == SortIdx(ps, solvedI, "solved", 0)
        failed == SortIdx(ps, failedI, "live", 0)
        active == SelectIdx(Len(ps), activeI)
        all == solved \o failed \o active
        IndexOf(s, i) == IF \E k \in DOMAIN s : s[k] = i
                         THEN CHOOSE k \in DOMAIN s : s[k] = i ELSE 0
        Row(i) ==
            [rank |-> IF ps[i].isSolved THEN IndexOf(solved, i)
                      ELSE IF ps[i].status = "failed"
                           THEN Len(solved) + IndexOf(failed, i)
                           ELSE Null,
             playerId |-> ps[i].playerId, isSolved |-> ps[i].isSolved,
             status |-> ps[i].status,
             solveTime |-> IF ps[i].isSolved THEN ps[i].solveTime
                           ELSE OrElse(ps[i].failedTime, OrElse(ps[i].solveTime, 0)),
             solveAttempts |-> OrElse(ps[i].solveAttempts, Len(ps[i].guesses))]
    IN [k \in DOMAIN all |-> Row(all[k])]

\* checkGameCompletion's test: no player is active
AllDone(g) == \A i \in DOMAIN g.players : g.players[i].status # "active"

\* timers
Timeout(sid, due) == [kind |-> "timeout", sid |-> sid, at |-> due]
Interval(sid, start) == [kind |-> "interval", sid |-> sid, at |-> start]
Cleanup(due) == [kind |-> "cleanup", sid |-> 0, at |-> due]

\* clearTimeout(gameState.gameTimer); clearInterval(gameState.timerInterval)
ClearTimers(T, sid) ==
    [t \in {x \in BagToSet(T) : ~(x.sid = sid /\ x.kind \in {"timeout", "interval"})}
        |-> T[t]]

\* objects no longer reachable from activeGames or a suspended endGame are collected
Reachable(S, act, pend) ==
    LET live == {act} \cup {k.sid : k \in BagToSet(pend)}
    IN [s \in DOMAIN S \cap live |-> S[s]]

(* ------------------------------ feedback ------------------------------- *)
ExactPass_KeepsLetters(guess, target) ==
    [fb |-> [i \in 1..WordLen |-> IF guess[i] = target[i] THEN 2 ELSE 0],
     left |-> target]

\* first pass of generateWordFeedback: exact matches, and the target letters left
ExactPass(guess, target) ==
    [fb |-> [i \in 1..WordLen |-> IF guess[i] = target[i] THEN 2 ELSE 0],
     left |-> [i \in 1..WordLen |-> IF guess[i] = target[i] THEN "" ELSE target[i]]]

\* targetLetters.indexOf(ch): the first index holding ch, or 0
IndexOfLetter(left, ch) ==
    IF \E k \in DOMAIN left : left[k] = ch
    THEN CHOOSE k \in DOMAIN left :
            left[k] = ch /\ \A j \in DOMAIN left : left[j] = ch => k <= j
    ELSE 0

RECURSIVE MisplacedPass_NoConsume(_, _, _, _)
MisplacedPass_NoConsume(i, guess, fb, left) ==
    IF i > WordLen THEN fb
    ELSE IF fb[i] = 0 /\ (\E k \in DOMAIN left : left[k] = guess[i])
    THEN MisplacedPass_NoConsume(i + 1, guess, [fb EXCEPT ![i] = 1], left)
    ELSE MisplacedPass_NoConsume(i + 1, guess, fb, left)

RECURSIVE MisplacedPass(_, _, _, _)
\* second pass of generateWordFeedback, from position i on
MisplacedPass(i, guess, fb, left) ==
    IF i > WordLen THEN fb
    ELSE IF fb[i] = 0 /\ IndexOfLetter(left, guess[i]) # 0
    THEN MisplacedPass(i + 1, guess, [fb EXCEPT ![i] = 1],
                       [left EXCEPT ![IndexOfLetter(left, guess[i])] = ""])
    ELSE MisplacedPass(i + 1, guess, fb, left)

\* generateWordFeedback: 0 = wrong, 1 = wrong position, 2 = correct
generateWordFeedback(guess, target) ==
    LET e == ExactPass(guess, target)
    IN MisplacedPass(1, guess, e.fb, e.left)

(* ----------------------------- submit-word ----------------------------- *)
\* `if (player.isSolved)`
AlreadySolved(pl) == pl.isSolved

\* `if (!word || word.length !== 5)`
InvalidWordLength(w) == Len(w) # WordLen

AttemptsExhausted_OffByOne(pl) == Len(pl.guesses) > MaxGuesses

\* `if (player.guesses.length >= 6)`
AttemptsExhausted(pl) == Len(pl.guesses) >= MaxGuesses

SubmitError_AttemptsFirst(act, S, pid, w) ==
    IF act = 0 THEN "NoActiveSession"
    ELSE IF S[act].gameStatus # "active" THEN "NoActiveSession"
    ELSE IF FindPlayer(S[act], pid) = 0 THEN "NotAParticipant"
    ELSE IF AttemptsExhausted(S[act].players[FindPlayer(S[act], pid)])
         THEN "AttemptsExhausted"
    ELSE IF AlreadySolved(S[act].players[FindPlayer(S[act], pid)]) THEN "AlreadySolved"
    ELSE IF InvalidWordLength(w) THEN "InvalidWordLength"
    ELSE ""

SubmitError_MembersOnly(act, S, pid, w) ==
    IF act = 0 THEN "NoActiveSession"
    ELSE IF S[act].gameStatus # "active" THEN "NoActiveSession"
    ELSE IF FindPlayer(S[act], pid) = 0 \/ pid \notin Range(room.players)
         THEN "NotAParticipant"
    ELSE IF AlreadySolved(S[act].players[FindPlayer(S[act], pid)]) THEN "AlreadySolved"
    ELSE IF InvalidWordLength(w) THEN "InvalidWordLength"
    ELSE IF AttemptsExhausted(S[act].players[FindPlayer(S[act], pid)])
         THEN "AttemptsExhausted"
    ELSE ""

\* the rejection of submit-word, or "" when the guess is accepted
SubmitError(act, S, pid, w) ==
    IF act = 0 THEN "NoActiveSession"
    ELSE IF S[act].gameStatus # "active" THEN "NoActiveSession"
    ELSE IF FindPlayer(S[act], pid) = 0 THEN "NotAParticipant"
    ELSE IF AlreadySolved(S[act].players[FindPlayer(S[act], pid)]) THEN "AlreadySolved"
    ELSE IF InvalidWordLength(w) THEN "InvalidWordLength"
    ELSE IF AttemptsExhausted(S[act].players[FindPlayer(S[act], pid)])
         THEN "AttemptsExhausted"
    ELSE ""

AfterGuess_StatusOnly(pl, upperWord, target, elapsed) ==
    LET pushed == [pl EXCEPT !.guesses = Append(@, upperWord)]
    IN IF upperWord = target
       THEN [pushed EXCEPT !.solveTime = elapsed,
                           !.solveAttempts = Len(pushed.guesses), !.status = "solved"]
       ELSE IF Len(pushed.guesses) >= MaxGuesses - 1
       THEN [pushed EXCEPT !.status = "failed", !.solveTime = elapsed,
                           !.solveAttempts = MaxGuesses, !.failedTime = elapsed]
       ELSE [pushed EXCEPT !.status = "active"]

\* the player after an accepted guess
AfterGuess(pl, upperWord, target, elapsed) ==
    LET pushed == [pl EXCEPT !.guesses = Append(@, upperWord)]
    IN IF upperWord = target
       THEN [pushed EXCEPT !.isSolved = TRUE, !.solveTime = elapsed,
                           !.solveAttempts = Len(pushed.guesses), !.status = "solved"]
       ELSE IF Len(pushed.guesses) >= MaxGuesses
       THEN [pushed EXCEPT !.isSolved = FALSE, !.status = "failed",
                           !.solveTime = elapsed, !.solveAttempts = MaxGuesses,
                           !.failedTime = elapsed]
       ELSE [pushed EXCEPT !.status = "active"]

\* the game after an accepted guess by the player at index i (leaderboard updated
\* when the player solved or failed)
GameAfterGuess(g, i, w, t) ==
    LET pl == AfterGuess(g.players[i], toUpperCase(w), g.targetWord, t - g.gameStartTime)
        g1 == [g EXCEPT !.players[i] = pl]
    IN IF pl.status = "active" THEN g1
       ELSE [g1 EXCEPT !.leaderboard = LiveLeaderboard(g1)]

\* the events of an accepted guess
GuessEvents(g1, i, w) ==
    LET pl == g1.players[i]
    IN IF pl.status = "solved"
       THEN <<Ev("word-solved", "room", [playerId |-> pl.playerId,
                 solveTime |-> pl.solveTime, solveAttempts |-> pl.solveAttempts]),
              Ev("leaderboard-update", "room", g1.leaderboard)>>
       ELSE IF pl.status = "failed"
       THEN <<Ev("player-failed", "room", [playerId |-> pl.playerId,
                 attempts |-> MaxGuesses, failedTime |-> pl.failedTime]),
              Ev("leaderboard-update", "room", g1.leaderboard)>>
       ELSE <<Ev("word-feedback", "caller", [word |-> toUpperCase(w),
                 feedback |-> generateWordFeedback(toUpperCase(w), g1.targetWord),
                 attempts |-> Len(pl.guesses)]),
              Ev("player-guess", "others", [playerId |-> pl.playerId,
                 attempts |-> Len(pl.guesses)])>>

\* endGame(roomId) up to its await, on the maps S (objects), T (timers), P (suspended
\* endGame calls)
EndGameCall(act, S, T, P, t) ==
    IF act = 0 THEN [S |-> S, T |-> T, P |-> P]
    ELSE LET r == EndGameSync(S[act], t)
         IN [S |-> [S EXCEPT ![act] = r.game],
             T |-> ClearTimers(T, act),
             P |-> P (+) SetToBag({[sid |-> act, order |-> r.order]})]

\* checkGameCompletion(roomId)
checkGameCompletion(act, S, T, P, t) ==
    IF act # 0 /\ AllDone(S[act]) THEN EndGameCall(act, S, T, P, t)
    ELSE [S |-> S, T |-> T, P |-> P]

\* socket.on('submit-word')
SubmitWord(c, pid, w) ==
    /\ conns[c].open
    /\ LET err == SubmitError(activeGame, sessions, pid, w)
       IN IF err # ""
          THEN /\ io' = [in |-> InWord("submit-word", c, pid, w), out |-> Err(err)]
               /\ UNCHANGED <<clockVars, roomVars, gameVars>>
          ELSE LET i == FindPlayer(sessions[activeGame], pid)
                   g1 == GameAfterGuess(sessions[activeGame], i, w, now)
                   S1 == [sessions EXCEPT ![activeGame] = g1]
                   r == IF g1.players[i].status = "active"
                        THEN [S |-> S1, T |-> timers, P |-> pending]
                        ELSE checkGameCompletion(activeGame, S1, timers, pending, now)
               IN /\ BagCardinality(r.P) <= MaxPending
                  /\ sessions' = r.S
                  /\ timers' = r.T
                  /\ pending' = r.P
                  /\ io' = [in |-> InWord("submit-word", c, pid, w),
                            out |-> GuessEvents(g1, i, w)]
                  /\ UNCHANGED <<clockVars, roomVars, activeGame, nextSid, gameRecords>>

(* ------------------------------- timers -------------------------------- *)
\* the clock advances
Tick ==
    /\ now < MaxTicks * TickMs
    /\ now' = now + TickMs
    /\ io' = [in |-> In("tick", "call", NoConn, NoPlayer), out |-> <<>>]
    /\ UNCHANGED <<calls, roomVars, gameVars>>

\* the countdown setTimeout of startGameTimer fires: endGame(roomId)
TimeoutFires(t) ==
    /\ BagIn(t, timers) /\ t.kind = "timeout" /\ now >= t.at
    /\ LET r == EndGameCall(activeGame, sessions, timers (-) SetToBag({t}), pending, now)
       IN /\ BagCardinality(r.P) <= MaxPending
          /\ sessions' = r.S
          /\ timers' = r.T
          /\ pending' = r.P
    /\ io' = [in |-> In("timeout", "call", NoConn, NoPlayer), out |-> <<>>]
    /\ UNCHANGED <<clockVars, roomVars, activeGame, nextSid, gameRecords>>

\* the setInterval of startGameTimer fires, on the gameState it closed over
IntervalFires(t) ==
    /\ BagIn(t, timers) /\ t.kind = "interval"
    /\ IF TimeLimit - (now - t.at) > 0
       THEN /\ io' = [in |-> In("interval", "call", NoConn, NoPlayer),
                      out |-> <<Ev("timer-update", "room",
                                   [timeLeft |-> TimeLimit - (now - t.at), sid |-> t.sid])>>]
            /\ UNCHANGED timers
       ELSE /\ io' = [in |-> In("interval", "call", NoConn, NoPlayer), out |-> <<>>]
            /\ timers' = timers (-) SetToBag({t})
    /\ UNCHANGED <<clockVars, roomVars, activeGame, sessions, nextSid, pending, gameRecords>>

\* the rest of endGame, resumed when Player.find answers
EndGameResume(k) ==
    /\ BagIn(k, pending)
    /\ LET g == EndGameFinish(sessions[k.sid], k.order, now)
           P == pending (-) SetToBag({k})
       IN /\ sessions' = Reachable([sessions EXCEPT ![k.sid] = g], activeGame, P)
          /\ pending' = P
          /\ io' = [in |-> In("endGame", "find", NoConn, NoPlayer),
                    out |-> <<Ev("game-ended", "room",
                                 [leaderboard |-> g.leaderboard,
                                  targetWord |-> g.targetWord, sid |-> k.sid])>>]
    /\ gameRecords' = [gameRecords EXCEPT ![k.sid] = @ + 1]
    /\ timers' = timers (+) SetToBag({Cleanup(now + GraceMs)})
    /\ UNCHANGED <<clockVars, roomVars, activeGame, nextSid>>

StillFinished_AnyStored(act, S) == act # 0

\* `currentState && currentState.gameStatus === 'finished'`
StillFinished(act, S) == act # 0 /\ S[act].gameStatus = "finished"

\* the clean-up setTimeout of endGame fires
CleanupFires(t) ==
    /\ BagIn(t, timers) /\ t.kind = "cleanup" /\ now >= t.at
    /\ timers' = timers (-) SetToBag({t})
    /\ IF StillFinished(activeGame, sessions)
       THEN /\ activeGame' = 0
            /\ sessions' = Reachable(sessions, 0, pending)
       ELSE UNCHANGED <<activeGame, sessions>>
    /\ io' = [in |-> In("cleanup", "call", NoConn, NoPlayer), out |-> <<>>]
    /\ UNCHANGED <<clockVars, roomVars, nextSid, pending, gameRecords>>

(* ----------------------- start-game / start-again ---------------------- *)
Idle ==
    [op |-> "idle", pc |-> "", conn |-> NoConn, player |-> NoPlayer, found |-> FALSE,
     isOwner |-> FALSE, remaining |-> <<>>, doc |-> NoRoom, fresh |-> FALSE]

Suspended(op, pc, c, pid) == [Idle EXCEPT !.op = op, !.pc = pc, !.conn = c, !.player = pid]

NotOwner_Never(r, pid) == FALSE

\* `!room || ownerId !== playerId`
NotOwner(r, pid) == ~r.exists \/ r.owner # pid

\* `room.players.length < 2`
NotEnoughPlayers(r) == Len(r.players) < MinPlayers

\* start-game / start-again: Room.findOne answers; the checks; then the handler
\* waits for wordService.getRandomWord
StartLookup(op, c, pid) ==
    /\ op \in {"start-game", "start-again"}
    /\ conns[c].open
    /\ IF NotOwner(room, pid)
       THEN /\ io' = [in |-> In(op, "lookup", c, pid), out |-> Err("Forbidden")]
            /\ UNCHANGED <<handlers, activeGame, sessions>>
       ELSE IF NotEnoughPlayers(room)
       THEN /\ io' = [in |-> In(op, "lookup", c, pid),
                      out |-> Err("NotEnoughPlayers")]
            /\ UNCHANGED <<handlers, activeGame, sessions>>
       ELSE /\ BagCardinality(handlers) < MaxInflight
            /\ nextSid + Cardinality({h \in BagToSet(handlers) : h.pc = "word"})
                 <= MaxSessions
            /\ handlers' = handlers (+)
                 SetToBag({[Suspended(op, "word", c, pid) EXCEPT !.doc = room]})
            /\ IF op = "start-again"
               THEN /\ activeGame' = 0
                    /\ sessions' = Reachable(sessions, 0, pending)
               ELSE UNCHANGED <<activeGame, sessions>>
            /\ io' = [in |-> In(op, "lookup", c, pid), out |-> <<>>]
    /\ UNCHANGED <<clockVars, room, conns, roomSockets, playerSockets, nextSid, timers,
                   pending, gameRecords>>

\* startGameTimer(roomId) on the timers T, for the object sid stored in activeGames
startGameTimer(T, sid, t) ==
    [x \in {y \in BagToSet(T) : ~(y.sid = sid /\ y.kind = "timeout")} |-> T[x]]
        (+) SetToBag({Timeout(sid, t + TimeLimit), Interval(sid, t)})

\* start-game / start-again: the word arrives; the gameState is built from the room
\* read before, stored, announced, and its timers are armed
StartWord(h, target) ==
    /\ BagIn(h, handlers) /\ h.pc = "word"
    /\ handlers' = handlers (-) SetToBag({h})
    /\ activeGame' = nextSid
    /\ nextSid' = nextSid + 1
    /\ sessions' = Reachable((nextSid :> NewGame(target, h.doc.players, now)) @@ sessions,
                             nextSid, pending)
    /\ timers' = startGameTimer(timers, nextSid, now)
    /\ io' = [in |-> In(h.op, "word", h.conn, h.player),
              out |-> <<Ev("game-started", "room",
                           [players |-> h.doc.players, sid |-> nextSid])>>]
    /\ UNCHANGED <<clockVars, room, conns, roomSockets, playerSockets, pending, gameRecords>>

\* start-game / start-again: wordService.getRandomWord throws
StartWordFails(h) ==
    /\ BagIn(h, handlers) /\ h.pc = "word"
    /\ handlers' = handlers (-) SetToBag({h})
    /\ io' = [in |-> In(h.op, "word", h.conn, h.player), out |-> Err("ServerError")]
    /\ UNCHANGED <<clockVars, room, conns, roomSockets, playerSockets, gameVars>>

(* ------------------------------ game runs ------------------------------ *)
\* every id a request can name
UserIds == 1..(MaxRoomPlayers + 2)

OpenConn(pid) == [open |-> TRUE, auth |-> pid, joined |-> TRUE]

\* a room of two, both connected and subscribed, no game yet
InitGame ==
    /\ now = 0
    /\ room = [exists |-> TRUE, players |-> <<1, 2>>, owner |-> 1]
    /\ conns = [c \in Conns |-> IF c = "s1" THEN OpenConn(1) ELSE OpenConn(2)]
    /\ roomSockets = Conns
    /\ playerSockets = [p \in UserIds |->
                          IF p = 1 THEN "s1" ELSE IF p = 2 THEN "s2" ELSE NoConn]
    /\ handlers = EmptyBag
    /\ activeGame = 0
    /\ sessions = <<>>
    /\ nextSid = 1
    /\ timers = EmptyBag
    /\ pending = EmptyBag
    /\ gameRecords = [s \in 1..MaxSessions |-> 0]
    /\ io = [in |-> In("init", "call", NoConn, NoPlayer), out |-> <<>>]
    /\ calls = 0

\* the connection each player of the game runs uses
PlayerConn(p) == IF p = 2 THEN "s2" ELSE "s1"

\* the guesses submitted in the game runs: player 1 guesses wrong, right in lower
\* case, or too short; player 2 guesses right; player 3 is not in the room
GameGuesses == {<<1, CRONE>>, <<1, crane>>, <<1, CRAN>>, <<2, CRANE>>, <<3, CRANE>>}

NextGame ==
    \/ \E x \in GameGuesses : SubmitWord(PlayerConn(x[1]), x[1], x[2])
    \/ \E op \in {"start-game", "start-again"} : StartLookup(op, PlayerConn(1), 1)
    \/ \E h \in BagToSet(handlers), w \in TargetWords : StartWord(h, w)
    \/ \E h \in BagToSet(handlers) : StartWordFails(h)
    \/ \E t \in BagToSet(timers) : TimeoutFires(t)
    \/ \E t \in BagToSet(timers) : IntervalFires(t)
    \/ \E t \in BagToSet(timers) : CleanupFires(t)
    \/ \E k \in BagToSet(pending) : EndGameResume(k)
    \/ Tick

SpecGame == InitGame /\ [][NextGame]_vars

(* --------------------------- room membership --------------------------- *)
RoomIsFull_OffByOne(r) == Len(r.players) > MaxRoomPlayers

\* `room.players.length >= 7`
RoomIsFull(r) == Len(r.players) >= MaxRoomPlayers

PlayerExists_Never(r, pid) == FALSE

\* `room.players.some(p => p._id.toString() === playerId)`
PlayerExists(r, pid) == \E k \in DOMAIN r.players : r.players[k] = pid

\* a save or delete reached the database: the documents other handlers hold are
\* no longer at the stored version
Outdated(H) ==
    LET stale(h) == IF h.pc = "save" THEN [h EXCEPT !.fresh = FALSE] ELSE h
    IN [x \in {stale(h) : h \in BagToSet(H)} |->
          LET src == {h \in BagToSet(H) : stale(h) = x}
              n1 == IF x \in src THEN H[x] ELSE 0
              other == src \ {x}
          IN n1 + (IF other = {} THEN 0 ELSE H[CHOOSE h \in other : TRUE])]

\* socket.join(roomId); playerSockets.set(playerId, socket.id);
\* roomSockets.get(roomId).add(socket.id)
Subscribe(c, pid) ==
    /\ conns' = [conns EXCEPT ![c].joined = TRUE]
    /\ playerSockets' = [playerSockets EXCEPT ![pid] = c]
    /\ roomSockets' = roomSockets \cup {c}

\* join-room (socket) and joinRoom (HTTP): the request arrives without a field
JoinInvalid(op, c) ==
    /\ op \in {"join-room", "http-join"}
    /\ op = "join-room" => conns[c].open
    /\ calls < MaxCalls /\ calls' = calls + 1
    /\ io' = [in |-> In(op, "invalid", c, NoPlayer), out |-> Err("MissingData")]
    /\ UNCHANGED <<now, roomVars, gameVars>>

\* join-room (socket) and joinRoom (HTTP): Room.findOne answers; the checks; an
\* absent player is pushed and the handler waits for room.save(), a present one is
\* subscribed and the handler waits for the second Room.findOne
JoinLookup(op, c, pid) ==
    /\ op \in {"join-room", "http-join"}
    /\ op = "join-room" => conns[c].open
    /\ calls < MaxCalls /\ calls' = calls + 1
    /\ IF ~room.exists
       THEN /\ io' = [in |-> In(op, "lookup", c, pid), out |-> Err("NotFound")]
            /\ UNCHANGED <<handlers, conns, playerSockets, roomSockets>>
       ELSE IF RoomIsFull(room)
       THEN /\ io' = [in |-> In(op, "lookup", c, pid), out |-> Err("RoomFull")]
            /\ UNCHANGED <<handlers, conns, playerSockets, roomSockets>>
       ELSE /\ BagCardinality(handlers) < MaxInflight
            /\ io' = [in |-> In(op, "lookup", c, pid), out |-> <<>>]
            /\ IF PlayerExists(room, pid)
               THEN /\ handlers' = handlers (+) SetToBag(
                          {[Suspended(op, "reload", c, pid) EXCEPT !.found = TRUE]})
                    /\ IF op = "join-room" THEN Subscribe(c, pid)
                       ELSE UNCHANGED <<conns, playerSockets, roomSockets>>
               ELSE /\ handlers' = handlers (+) SetToBag({Suspended(op, "save", c, pid)})
                    /\ UNCHANGED <<conns, playerSockets, roomSockets>>
    /\ UNCHANGED <<now, room, gameVars>>

\* join: room.save() after players.push(playerId) answers: the id is appended to the
\* stored array (a $push), or the document is gone and save throws
JoinSave(h) ==
    /\ BagIn(h, handlers) /\ h.op \in {"join-room", "http-join"} /\ h.pc = "save"
    /\ IF ~room.exists
       THEN /\ handlers' = handlers (-) SetToBag({h})
            /\ io' = [in |-> In(h.op, "save", h.conn, h.player), out |-> Err("ServerError")]
            /\ UNCHANGED <<room, conns, playerSockets, roomSockets>>
       ELSE /\ room' = [room EXCEPT !.players = Append(@, h.player)]
            /\ handlers' = Outdated(handlers (-) SetToBag({h}))
                             (+) SetToBag({[h EXCEPT !.pc = "reload"]})
            /\ io' = [in |-> In(h.op, "save", h.conn, h.player), out |-> <<>>]
            /\ IF h.op = "join-room" THEN Subscribe(h.conn, h.player)
               ELSE UNCHANGED <<conns, playerSockets, roomSockets>>
    /\ UNCHANGED <<clockVars, gameVars>>

\* join: the second Room.findOne answers; the roster is announced and returned
JoinReload(h) ==
    /\ BagIn(h, handlers) /\ h.op \in {"join-room", "http-join"} /\ h.pc = "reload"
    /\ handlers' = handlers (-) SetToBag({h})
    /\ io' = [in |-> In(h.op, "reload", h.conn, h.player),
              out |-> IF h.op = "join-room"
                      THEN <<Ev("player-joined", "room", room),
                             Ev("room-joined", "caller", room)>>
                      ELSE <<Ev("http-200", "caller", room)>>]
    /\ UNCHANGED <<clockVars, room, conns, playerSockets, roomSockets, gameVars>>

\* socket.on('authenticate')
Authenticate(c, pid) ==
    /\ conns[c].open
    /\ conns' = [conns EXCEPT ![c].auth = pid]
    /\ io' = [in |-> In("authenticate", "call", c, pid),
              out |-> <<Ev("authenticated", "caller", pid)>>]
    /\ UNCHANGED <<clockVars, room, roomSockets, playerSockets, handlers, gameVars>>

\* leave-room: the request arrives and the first Room.findOne (lean) answers
LeaveLookup(c, pid) ==
    /\ conns[c].open
    /\ calls < MaxCalls /\ calls' = calls + 1
    /\ IF ~room.exists
       THEN /\ io' = [in |-> In("leave-room", "lookup", c, pid), out |-> Err("NotFound")]
            /\ UNCHANGED handlers
       ELSE /\ BagCardinality(handlers) < MaxInflight
            /\ handlers' = handlers (+) SetToBag(
                  {[Suspended("leave-room", "doc", c, pid) EXCEPT
                       !.isOwner = (room.owner = pid),
                       !.remaining = Without(room.players, pid)]})
            /\ io' = [in |-> In("leave-room", "lookup", c, pid), out |-> <<>>]
    /\ UNCHANGED <<now, room, conns, roomSockets, playerSockets, gameVars>>

\* disconnect: the socket closes; it is taken out of roomSockets, and for the room
\* it was in the handler waits for the first Room.findOne
Disconnect(c) ==
    /\ conns[c].open
    /\ calls < MaxCalls /\ calls' = calls + 1
    /\ conns' = [conns EXCEPT ![c].open = FALSE, ![c].joined = FALSE]
    /\ io' = [in |-> In("disconnect", "call", c, conns[c].auth), out |-> <<>>]
    /\ IF conns[c].auth = NoPlayer
       THEN UNCHANGED <<roomSockets, playerSockets, handlers>>
       ELSE IF c \in roomSockets
       THEN /\ BagCardinality(handlers) < MaxInflight
            /\ roomSockets' = roomSockets \ {c}
            /\ handlers' = handlers (+)
                  SetToBag({Suspended("disconnect", "lookup", c, conns[c].auth)})
            /\ UNCHANGED playerSockets
       ELSE /\ playerSockets' = [playerSockets EXCEPT ![conns[c].auth] = NoConn]
            /\ UNCHANGED <<roomSockets, handlers>>
    /\ UNCHANGED <<now, room, gameVars>>

\* disconnect: the first Room.findOne (lean) answers
DisconnectLookup(h) ==
    /\ BagIn(h, handlers) /\ h.op = "disconnect" /\ h.pc = "lookup"
    /\ io' = [in |-> In("disconnect", "lookup", h.conn, h.player), out |-> <<>>]
    /\ IF ~room.exists
       THEN /\ handlers' = handlers (-) SetToBag({h})
            /\ playerSockets' = [playerSockets EXCEPT ![h.player] = NoConn]
       ELSE /\ handlers' = (handlers (-) SetToBag({h})) (+) SetToBag(
                  {[h EXCEPT !.pc = "doc", !.isOwner = (room.owner = h.player),
                             !.remaining = Without(room.players, h.player)]})
            /\ UNCHANGED playerSockets
    /\ UNCHANGED <<clockVars, room, conns, roomSockets, gameVars>>

NewOwner_Index(remaining, k) == k

\* the new owner drawn when the owner leaves: remainingPlayers[k]
NewOwner(remaining, k) == remaining[k]

\* socket.leave(roomId); playerSockets.delete(playerId);
\* roomSockets.get(roomId).delete(socket.id)
Unsubscribe(c, pid) ==
    /\ conns' = [conns EXCEPT ![c].joined = FALSE]
    /\ playerSockets' = [playerSockets EXCEPT ![pid] = NoConn]
    /\ roomSockets' = roomSockets \ {c}

\* leave-room after its database writes: unsubscribe, then 'room-disbanded' or the
\* wait for the last Room.findOne
LeaveRest(h, H, out) ==
    /\ Unsubscribe(h.conn, h.player)
    /\ IF Len(h.remaining) = 0
       THEN /\ handlers' = H
            /\ io' = [in |-> In(h.op, h.pc, h.conn, h.player),
                      out |-> out \o <<Ev("room-disbanded", "caller", 0)>>]
       ELSE /\ handlers' = H (+) SetToBag({[h EXCEPT !.pc = "reload"]})
            /\ io' = [in |-> In(h.op, h.pc, h.conn, h.player), out |-> out]

\* leave-room and disconnect: the second Room.findOne answers; the player is
\* filtered out of the document, a new owner is drawn from the players read first
\* and announced, and the handler waits for deleteOne or save
LeaveDoc(h, k) ==
    /\ BagIn(h, handlers) /\ h.op \in {"leave-room", "disconnect"} /\ h.pc = "doc"
    /\ k \in 1..Len(h.remaining) \/ (k = 0 /\ ~(h.isOwner /\ Len(h.remaining) > 0))
    /\ (h.isOwner /\ Len(h.remaining) > 0) => k # 0
    /\ IF ~room.exists
       THEN IF h.op = "leave-room"
            THEN LeaveRest(h, handlers (-) SetToBag({h}), <<>>)
            ELSE /\ handlers' = handlers (-) SetToBag({h})
                 /\ playerSockets' = [playerSockets EXCEPT ![h.player] = NoConn]
                 /\ io' = [in |-> In(h.op, "doc", h.conn, h.player), out |-> <<>>]
                 /\ UNCHANGED <<conns, roomSockets>>
       ELSE LET filtered == Without(room.players, h.player)
                change == h.isOwner /\ Len(h.remaining) > 0
                doc == [exists |-> TRUE, players |-> filtered,
                        owner |-> IF change THEN NewOwner(h.remaining, k)
                                  ELSE room.owner]
            IN /\ handlers' = (handlers (-) SetToBag({h})) (+) SetToBag(
                     {[h EXCEPT !.pc = IF Len(filtered) = 0 THEN "delete" ELSE "save",
                                !.doc = doc, !.fresh = TRUE]})
               /\ io' = [in |-> In(h.op, "doc", h.conn, h.player),
                         out |-> IF change
                                 THEN <<Ev("owner-changed", "room", NewOwner(h.remaining, k))>>
                                 ELSE <<>>]
               /\ UNCHANGED <<conns, roomSockets, playerSockets>>
    /\ UNCHANGED <<clockVars, room, gameVars>>

\* leave-room and disconnect: Room.deleteOne answers; the game of the room is dropped
LeaveDelete(h) ==
    /\ BagIn(h, handlers) /\ h.op \in {"leave-room", "disconnect"} /\ h.pc = "delete"
    /\ room' = NoRoom
    /\ activeGame' = 0
    /\ sessions' = Reachable(sessions, 0, pending)
    /\ IF h.op = "leave-room"
       THEN LeaveRest(h, Outdated(handlers (-) SetToBag({h})), <<>>)
       ELSE /\ handlers' = Outdated(handlers (-) SetToBag({h}))
            /\ playerSockets' = [playerSockets EXCEPT ![h.player] = NoConn]
            /\ io' = [in |-> In(h.op, "delete", h.conn, h.player), out |-> <<>>]
            /\ UNCHANGED <<conns, roomSockets>>
    /\ UNCHANGED <<clockVars, nextSid, timers, pending, gameRecords>>

\* leave-room and disconnect: roomDoc.save() answers: the players array and the
\* owner are written if the document is still at the version read, else save throws
LeaveSave(h) ==
    /\ BagIn(h, handlers) /\ h.op \in {"leave-room", "disconnect"} /\ h.pc = "save"
    /\ IF ~room.exists \/ ~h.fresh
       THEN /\ handlers' = handlers (-) SetToBag({h})
            /\ io' = [in |-> In(h.op, "save", h.conn, h.player),
                      out |-> IF h.op = "leave-room" THEN Err("ServerError") ELSE <<>>]
            /\ IF h.op = "disconnect"
               THEN playerSockets' = [playerSockets EXCEPT ![h.player] = NoConn]
               ELSE UNCHANGED playerSockets
            /\ UNCHANGED <<room, conns, roomSockets>>
       ELSE /\ room' = h.doc
            /\ IF h.op = "leave-room"
               THEN LeaveRest(h, Outdated(handlers (-) SetToBag({h})), <<>>)
               ELSE /\ handlers' = Outdated(handlers (-) SetToBag({h}))
                                     (+) SetToBag({[h EXCEPT !.pc = "reload"]})
                    /\ io' = [in |-> In(h.op, "save", h.conn, h.player), out |-> <<>>]
                    /\ UNCHANGED <<conns, roomSockets, playerSockets>>
    /\ UNCHANGED <<clockVars, gameVars>>

\* leave-room and disconnect: the last Room.findOne answers; the roster is announced
LeaveReload(h) ==
    /\ BagIn(h, handlers) /\ h.op \in {"leave-room", "disconnect"} /\ h.pc = "reload"
    /\ handlers' = handlers (-) SetToBag({h})
    /\ io' = [in |-> In(h.op, "reload", h.conn, h.player),
              out |-> IF ~room.exists THEN <<>>
                      ELSE IF h.op = "leave-room"
                      THEN <<Ev("player-left", "room", room)>>
                      ELSE <<Ev("player-disconnected", "room", room)>>]
    /\ IF h.op = "disconnect"
       THEN playerSockets' = [playerSockets EXCEPT ![h.player] = NoConn]
       ELSE UNCHANGED playerSockets
    /\ UNCHANGED <<clockVars, room, conns, roomSockets, gameVars>>

(* ------------------------------ room runs ------------------------------ *)
\* a room of n players built by createRoom and n - 1 joins, player 1 its owner
RoomOf(n) == [exists |-> TRUE, players |-> [i \in 1..n |-> i], owner |-> 1]

\* the players a connection names in its requests
ClaimedBy(c) == IF c = "s1" THEN {1} ELSE {2, MaxRoomPlayers + 1}

\* the authenticated users of the HTTP API
HttpUsers == {MaxRoomPlayers + 1, MaxRoomPlayers + 2}

InitRoom ==
    /\ now = 0
    /\ room \in {RoomOf(n) : n \in {1, 3, MaxRoomPlayers - 1, MaxRoomPlayers}}
    /\ conns = [c \in Conns |-> IF c = "s1" THEN OpenConn(1)
                                ELSE [open |-> TRUE, auth |-> NoPlayer, joined |-> FALSE]]
    /\ roomSockets = {"s1"}
    /\ playerSockets = [p \in UserIds |-> IF p = 1 THEN "s1" ELSE NoConn]
    /\ handlers = EmptyBag
    /\ activeGame = 0
    /\ sessions = <<>>
    /\ nextSid = 1
    /\ timers = EmptyBag
    /\ pending = EmptyBag
    /\ gameRecords = [s \in 1..MaxSessions |-> 0]
    /\ io = [in |-> In("init", "call", NoConn, NoPlayer), out |-> <<>>]
    /\ calls = 0

NextRoom ==
    \/ \E c \in Conns : JoinInvalid("join-room", c)
    \/ \E c \in Conns : \E p \in ClaimedBy(c) : JoinLookup("join-room", c, p)
    \/ \E p \in HttpUsers : JoinLookup("http-join", NoConn, p)
    \/ \E h \in BagToSet(handlers) : JoinSave(h)
    \/ \E h \in BagToSet(handlers) : JoinReload(h)
    \/ \E c \in Conns : \E p \in ClaimedBy(c) : Authenticate(c, p)
    \/ \E c \in Conns : \E p \in ClaimedBy(c) : LeaveLookup(c, p)
    \/ \E c \in Conns : Disconnect(c)
    \/ \E h \in BagToSet(handlers) : DisconnectLookup(h)
    \/ \E h \in BagToSet(handlers), k \in 0..MaxRoomPlayers : LeaveDoc(h, k)
    \/ \E h \in BagToSet(handlers) : LeaveDelete(h)
    \/ \E h \in BagToSet(handlers) : LeaveSave(h)
    \/ \E h \in BagToSet(handlers) : LeaveReload(h)

SpecRoom == InitRoom /\ [][NextRoom]_vars

(* ============================== properties ============================== *)
IsPrefix(a, b) == Len(a) <= Len(b) /\ \A i \in DOMAIN a : a[i] = b[i]

\* the session objects that exist before and after a step
Surviving == DOMAIN sessions \cap DOMAIN sessions'

\* C1: every session object is finalized (completed-game record written and
\* 'game-ended' broadcast) at most once.
C1_FinalizedAtMostOnce == \A s \in 1..MaxSessions : gameRecords[s] <= 1

\* C2: once a participant's status is solved or failed, no step changes it.
C2_StatusMonotonic ==
    [][\A s \in Surviving : \A i \in DOMAIN sessions[s].players :
          sessions[s].players[i].status # "active"
             => sessions'[s].players[i].status = sessions[s].players[i].status]_vars

\* C3: a participant never has more than 6 guesses, and a step only appends to a
\* participant's guesses.
C3_GuessesBoundedAppendOnly ==
    /\ [](\A s \in DOMAIN sessions : \A i \in DOMAIN sessions[s].players :
             Len(sessions[s].players[i].guesses) <= MaxGuesses)
    /\ [][\A s \in Surviving : \A i \in DOMAIN sessions[s].players :
             IsPrefix(sessions[s].players[i].guesses, sessions'[s].players[i].guesses)]_vars

\* a seventh guess was just refused with AttemptsExhausted
C3_Witness ==
    /\ io.in.op = "submit-word" /\ io.out = Err("AttemptsExhausted")
    /\ activeGame # 0
    /\ \E i \in DOMAIN sessions[activeGame].players :
          /\ sessions[activeGame].players[i].playerId = io.in.player
          /\ Len(sessions[activeGame].players[i].guesses) = MaxGuesses

\* the step is a submit-word by a participant of the room's session who has
\* already made 6 guesses in it
SeventhSubmit ==
    /\ io'.in.op = "submit-word"
    /\ activeGame # 0
    /\ FindPlayer(sessions[activeGame], io'.in.player) # 0
    /\ Len(sessions[activeGame].players[
              FindPlayer(sessions[activeGame], io'.in.player)].guesses) >= MaxGuesses

\* C4 as stated: a submit-word by a participant who has made 6 guesses always
\* fails with AttemptsExhausted.
C4_AlwaysAttemptsExhausted ==
    [][SeventhSubmit => io'.out = Err("AttemptsExhausted")]_vars

\* C4 amended: such a submit-word always fails and changes nothing; the failure is
\* NoActiveSession when the session is not active, else AlreadySolved when the
\* participant has solved, else InvalidWordLength when the word has not 5
\* letters, and AttemptsExhausted only otherwise.
C4_SeventhSubmitFails ==
    [][SeventhSubmit =>
         LET g == sessions[activeGame]
             pl == g.players[FindPlayer(g, io'.in.player)]
         IN /\ UNCHANGED <<sessions, activeGame, pending, timers, gameRecords>>
            /\ io'.out = Err(IF g.gameStatus # "active" THEN "NoActiveSession"
                             ELSE IF pl.isSolved THEN "AlreadySolved"
                             ELSE IF Len(io'.in.word) # WordLen THEN "InvalidWordLength"
                             ELSE "AttemptsExhausted")]_vars

\* a participant with 6 guesses who solved on the sixth was just refused
C4_Witness ==
    /\ io.in.op = "submit-word" /\ io.out = Err("AlreadySolved")
    /\ activeGame # 0
    /\ \E i \in DOMAIN sessions[activeGame].players :
          /\ sessions[activeGame].players[i].playerId = io.in.player
          /\ Len(sessions[activeGame].players[i].guesses) = MaxGuesses

InitLobby ==
    /\ now = 0
    /\ room = RoomOf(1)
    /\ conns = [c \in Conns |-> IF c = "s1" THEN OpenConn(1)
                                ELSE [open |-> TRUE, auth |-> 2, joined |-> FALSE]]
    /\ roomSockets = {"s1"}
    /\ playerSockets = [p \in UserIds |-> IF p = 1 THEN "s1" ELSE NoConn]
    /\ handlers = SetToBag({Suspended("join-room", "save", "s2", 2)})
    /\ activeGame = 0
    /\ sessions = <<>>
    /\ nextSid = 1
    /\ timers = EmptyBag
    /\ pending = EmptyBag
    /\ gameRecords = [s \in 1..MaxSessions |-> 0]
    /\ io = [in |-> In("join-room", "lookup", "s2", 2), out |-> <<>>]
    /\ calls = 0

\* the guess submitted in the lobby runs: player 1 guesses right
LobbyGuesses == {<<1, CRANE>>}

NextLobby ==
    \/ JoinLookup("join-room", "s2", 2)
    \/ \E h \in BagToSet(handlers) : JoinSave(h)
    \/ \E h \in BagToSet(handlers) : JoinReload(h)
    \/ \E p \in {1, 2} : LeaveLookup(PlayerConn(p), p)
    \/ Disconnect("s2")
    \/ \E h \in BagToSet(handlers) : DisconnectLookup(h)
    \/ \E h \in BagToSet(handlers), k \in 0..MaxRoomPlayers : LeaveDoc(h, k)
    \/ \E h \in BagToSet(handlers) : LeaveDelete(h)
    \/ \E h \in BagToSet(handlers) : LeaveSave(h)
    \/ \E h \in BagToSet(handlers) : LeaveReload(h)
    \/ \E op \in {"start-game", "start-again"}, p \in {1, 2} :
          StartLookup(op, PlayerConn(p), p)
    \/ \E h \in BagToSet(handlers), w \in TargetWords : StartWord(h, w)
    \/ \E h \in BagToSet(handlers) : StartWordFails(h)
    \/ \E x \in LobbyGuesses : SubmitWord(PlayerConn(x[1]), x[1], x[2])
    \/ \E t \in BagToSet(timers) : TimeoutFires(t)
    \/ \E k \in BagToSet(pending) : EndGameResume(k)
    \/ Tick

SpecLobby == InitLobby /\ [][NextLobby]_vars

(* ---------------------------- feedback runs --------------------------- *)
\* the letters of the targets and guesses of the feedback runs
FeedbackLetters == {"A", "E", "R"}

\* every word of WordLen letters over FeedbackLetters, and the two words of the
\* other runs
FeedbackWords == [1..WordLen -> FeedbackLetters] \cup {CRANE, CRONE}

\* a game of players 1 and 2 just started on any target, nothing guessed yet
InitFeedback ==
    /\ now = 0
    /\ room = [exists |-> TRUE, players |-> <<1, 2>>, owner |-> 1]
    /\ conns = [c \in Conns |-> IF c = "s1" THEN OpenConn(1) ELSE OpenConn(2)]
    /\ roomSockets = Conns
    /\ playerSockets = [p \in UserIds |->
                          IF p = 1 THEN "s1" ELSE IF p = 2 THEN "s2" ELSE NoConn]
    /\ handlers = EmptyBag
    /\ activeGame = 1
    /\ \E target \in FeedbackWords : sessions = (1 :> NewGame(target, <<1, 2>>, 0))
    /\ nextSid = 2
    /\ timers = startGameTimer(EmptyBag, 1, 0)
    /\ pending = EmptyBag
    /\ gameRecords = [s \in 1..MaxSessions |-> 0]
    /\ io = [in |-> In("init", "call", NoConn, NoPlayer), out |-> <<>>]
    /\ calls = 0

\* player 1 submits a first guess, any word
NextFeedback ==
    \E w \in FeedbackWords :
        /\ sessions[1].players[1].guesses = <<>>
        /\ SubmitWord("s1", 1, w)

SpecFeedback == InitFeedback /\ [][NextFeedback]_vars

(* ------------------------- feedback properties ------------------------- *)
\* the last step answered a guess with its feedback
FeedbackShown ==
    /\ io.in.op = "submit-word" /\ activeGame # 0
    /\ Len(io.out) > 0 /\ io.out[1].ev = "word-feedback"

\* the positions of word w that hold letter c
PositionsOf(w, c) == {i \in DOMAIN w : w[i] = c}

\* the last step was a submit-word of a word of WordLen letters
GuessSubmitted ==
    io.in.op = "submit-word" /\ activeGame # 0 /\ Len(io.in.word) = WordLen

\* the feedback of the guess just submitted: the one sent to the caller when one
\* was sent, and what generateWordFeedback computes for the pair otherwise
FeedbackOfSubmitted ==
    IF FeedbackShown THEN io.out[1].arg.feedback
    ELSE generateWordFeedback(toUpperCase(io.in.word),
                              sessions[activeGame].targetWord)

\* C14: in the feedback of a guess, the positions holding a letter c that are
\* marked 1 (wrong position) or 2 (correct) are at most as many as the
\* occurrences of c in the target
C14_MarksWithinTargetCount ==
    GuessSubmitted =>
        LET guess == io.in.word
            fb == FeedbackOfSubmitted
            target == sessions[activeGame].targetWord
        IN \A c \in Range(guess) :
              Cardinality({i \in PositionsOf(guess, c) : fb[i] # 0})
                 <= Cardinality(PositionsOf(target, c))

\* a guess with a repeated letter of which the target has fewer: the feedback
\* marks some of its occurrences and leaves another unmarked
C14_Witness ==
    /\ FeedbackShown
    /\ LET guess == io.out[1].arg.word
           fb == io.out[1].arg.feedback
           target == sessions[activeGame].targetWord
       IN \E c \in Range(guess) :
             /\ Cardinality(PositionsOf(guess, c)) > Cardinality(PositionsOf(target, c))
             /\ \E i \in PositionsOf(guess, c) : fb[i] = 1
             /\ \E i \in PositionsOf(guess, c) : fb[i] = 0

\* the reference feedback: 2 where the letters agree; elsewhere 1 when the earlier
\* disagreeing positions of the guess with the same letter are fewer than the
\* disagreeing positions of the target with that letter; else 0
ReferenceFeedback(guess, target) ==
    LET Off(c, w) == {k \in 1..WordLen : w[k] = c /\ guess[k] # target[k]}
    IN [i \in 1..WordLen |->
          IF guess[i] = target[i] THEN 2
          ELSE IF Cardinality({j \in Off(guess[i], guess) : j < i})
                    < Cardinality(Off(guess[i], target))
          THEN 1 ELSE 0]

\* C15: the feedback sent for a guess is the reference feedback of the guess
\* against the target
C15_FeedbackIsReference ==
    GuessSubmitted =>
        FeedbackOfSubmitted =
            ReferenceFeedback(io.in.word, sessions[activeGame].targetWord)

\* the guess CRONE against the target CRANE was answered 2, 2, 0, 2, 2
C15_Witness ==
    /\ FeedbackShown
    /\ io.in.word = CRONE /\ sessions[activeGame].targetWord = CRANE
    /\ io.out[1].arg.feedback = <<2, 2, 0, 2, 2>>

(* -------------------------- solving properties ------------------------- *)
\* the place of a character in the alphabet, whatever its case; 0 for another
\* character
LetterNo(ch) ==
    IF \E k \in DOMAIN LowerLetters : LowerLetters[k] = ch
    THEN CHOOSE k \in DOMAIN LowerLetters : LowerLetters[k] = ch
    ELSE IF \E k \in DOMAIN UpperLetters : UpperLetters[k] = ch
    THEN CHOOSE k \in DOMAIN UpperLetters : UpperLetters[k] = ch
    ELSE 0

\* two words are the same but for the case of their letters
SameIgnoringCase(a, b) ==
    /\ Len(a) = Len(b)
    /\ \A k \in DOMAIN a :
          a[k] = b[k] \/ (LetterNo(a[k]) # 0 /\ LetterNo(a[k]) = LetterNo(b[k]))

\* C16: an accepted submit-word whose word is the target but for letter case
\* leaves the player solved, with solveAttempts the number of the player's
\* guesses including this one, and announces 'word-solved' to the room
C16_TargetGuessSolves ==
    [][(/\ io'.in.op = "submit-word" /\ ~Emits(io'.out, "error")
        /\ activeGame # 0
        /\ SameIgnoringCase(io'.in.word, sessions[activeGame].targetWord)) =>
          LET i == FindPlayer(sessions[activeGame], io'.in.player)
              before == sessions[activeGame].players[i]
              after == sessions'[activeGame].players[i]
          IN /\ after.status = "solved" /\ after.isSolved
             /\ after.solveAttempts = Len(before.guesses) + 1
             /\ after.solveAttempts = Len(after.guesses)
             /\ \E k \in DOMAIN io'.out :
                   /\ io'.out[k].ev = "word-solved" /\ io'.out[k].to = "room"
                   /\ io'.out[k].arg.playerId = io'.in.player
                   /\ io'.out[k].arg.solveAttempts = after.solveAttempts]_vars

\* player 1 solved with the target in lower case on the second guess
C16_Witness ==
    /\ io.in.op = "submit-word" /\ io.in.word = crane /\ activeGame # 0
    /\ Emits(io.out, "word-solved")
    /\ sessions[activeGame].targetWord = CRANE
    /\ \E i \in DOMAIN sessions[activeGame].players :
          /\ sessions[activeGame].players[i].playerId = io.in.player
          /\ sessions[activeGame].players[i].status = "solved"
          /\ sessions[activeGame].players[i].solveAttempts = 2

(* ---------------------- finalization and timers ------------------------ *)
\* C11: a session that is finished has no participant whose status is active
\* (whoever was still active when the countdown fired has been failed)
C11_FinishedHasNoActive ==
    \A s \in DOMAIN sessions :
        sessions[s].gameStatus = "finished" =>
            \A i \in DOMAIN sessions[s].players :
                sessions[s].players[i].status # "active"

\* the armed timers of one kind
Armed(kind) == {t \in BagToSet(timers) : t.kind = kind}

\* C12: while a session is stored for the room, at most one countdown and at
\* most one tick are armed, each once, and both were armed for that session
C12_TimersOfStoredSessionOnly ==
    activeGame # 0 =>
        \A kind \in {"timeout", "interval"} :
            /\ Cardinality(Armed(kind)) <= 1
            /\ \A t \in Armed(kind) : CopiesIn(t, timers) = 1 /\ t.sid = activeGame

\* C13: a countdown that fires and finalizes the stored session does so no
\* earlier than TimeLimit after that session started
C13_TimeoutNotBeforeTimeLimit ==
    [][(io'.in.op = "timeout" /\ activeGame # 0 /\ pending' # pending) =>
          now - sessions[activeGame].gameStartTime >= TimeLimit]_vars

(* --------------------------- room properties --------------------------- *)
IsMember(r, pid) == pid \in Range(r.players)

NoDuplicates(seq) == \A i, j \in DOMAIN seq : seq[i] = seq[j] => i = j

JoinOps == {"join-room", "http-join"}

LeaveOps == {"leave-room", "disconnect"}

\* C5: the owner of every existing room is one of its members
C5_OwnerIsMember == room.exists => IsMember(room, room.owner)

\* C6: the owner of a room changes only in a step of the leave or disconnect of
\* its current owner, the new owner is then a member of the room that remains,
\* and 'owner-changed' is announced only by the leave or disconnect of the
\* current owner and names a member other than the one leaving
C6_OwnerChangesOnlyOnOwnerExit ==
    [][/\ (room.exists /\ room'.exists /\ room'.owner # room.owner) =>
             /\ io'.in.op \in LeaveOps
             /\ io'.in.player = room.owner
             /\ IsMember(room', room'.owner)
       /\ Emits(io'.out, "owner-changed") =>
             /\ io'.in.op \in LeaveOps
             /\ room.exists /\ io'.in.player = room.owner
             /\ \A k \in DOMAIN io'.out : io'.out[k].ev = "owner-changed" =>
                   /\ IsMember(room, io'.out[k].arg)
                   /\ io'.out[k].arg # io'.in.player]_vars

\* C7: a join (socket or HTTP) that reads a room of seven members answers
\* RoomFull whoever asks, and leaves the room, the subscriptions, the socket
\* maps and the handlers in flight as they were
C7_FullRoomRejectsJoin ==
    [][(/\ io'.in.op \in JoinOps /\ io'.in.step = "lookup"
        /\ room.exists /\ Len(room.players) = MaxRoomPlayers) =>
          /\ io'.out = Err("RoomFull")
          /\ room' = room
          /\ conns' = conns /\ roomSockets' = roomSockets
          /\ playerSockets' = playerSockets /\ handlers' = handlers]_vars

\* a member of a full room asked to join it and was refused
C7_Witness ==
    /\ io.in.op \in JoinOps /\ io.in.step = "lookup"
    /\ room.exists /\ Len(room.players) = MaxRoomPlayers
    /\ IsMember(room, io.in.player)
    /\ io.out = Err("RoomFull")

\* C8: a room never has more than seven members and never the same member twice
C8_AtMostSevenDistinct ==
    room.exists => Len(room.players) <= MaxRoomPlayers /\ NoDuplicates(room.players)

\* C9 as stated: a join by a player who is already a member of the room is
\* not refused and leaves the members as they were
C9_MemberJoinSucceeds ==
    [][(/\ io'.in.op \in JoinOps /\ io'.in.step = "lookup"
        /\ room.exists /\ IsMember(room, io'.in.player)) =>
          /\ ~Emits(io'.out, "error")
          /\ room' = room]_vars

\* C9 amended: a join by a player who is already a member of a room of fewer than
\* seven members is not refused, writes nothing, goes straight to reading the
\* roster back, and that last step answers with the roster and writes nothing
C9_MemberJoinIdempotentBelowCapacity ==
    [][/\ (/\ io'.in.op \in JoinOps /\ io'.in.step = "lookup"
           /\ room.exists /\ IsMember(room, io'.in.player)
           /\ Len(room.players) < MaxRoomPlayers) =>
             /\ io'.out = <<>>
             /\ room' = room
             /\ \E h \in BagToSet(handlers') :
                   /\ h.op = io'.in.op /\ h.player = io'.in.player
                   /\ h.pc = "reload" /\ h.found
                   /\ CopiesIn(h, handlers') = CopiesIn(h, handlers) + 1
       /\ (/\ io'.in.op \in JoinOps /\ io'.in.step = "reload"
           /\ \E h \in BagToSet(handlers) :
                 /\ h.found /\ h.op = io'.in.op /\ h.player = io'.in.player
                 /\ CopiesIn(h, handlers') < CopiesIn(h, handlers)) =>
             /\ room' = room
             /\ IF io'.in.op = "join-room"
                THEN io'.out = <<Ev("player-joined", "room", room),
                                 Ev("room-joined", "caller", room)>>
                ELSE io'.out = <<Ev("http-200", "caller", room)>>]_vars

\* a member of a room below capacity asked to join it and the handler is on its
\* way to the roster read-back without a write
C9_Witness ==
    /\ io.in.op \in JoinOps /\ io.in.step = "lookup" /\ io.out = <<>>
    /\ room.exists /\ Len(room.players) < MaxRoomPlayers
    /\ IsMember(room, io.in.player)
    /\ \E h \in BagToSet(handlers) :
          h.op = io.in.op /\ h.player = io.in.player /\ h.pc = "reload" /\ h.found


(* --------------------------- lobby properties -------------------------- *)
StartOps == {"start-game", "start-again"}

\* the names of the distinct players of a session
Participants(g) == {g.players[i].playerId : i \in DOMAIN g.players}

\* C17: a start-game or start-again that reads a room whose owner is another
\* player answers Forbidden to the caller alone, and leaves the stored session,
\* the session objects, the timers and the handlers in flight as they were
C17_NonOwnerStartForbidden ==
    [][(/\ io'.in.op \in StartOps /\ io'.in.step = "lookup"
        /\ room.exists /\ room.owner # io'.in.player) =>
          /\ io'.out = <<Ev("error", "caller", "Forbidden")>>
          /\ UNCHANGED <<activeGame, sessions, nextSid, timers, pending, handlers>>]_vars

\* player 2, not the owner, asked to start again while a session was stored, and
\* was refused; the session is still stored and its countdown armed
C17_Witness ==
    /\ io.in.op = "start-again" /\ io.in.step = "lookup"
    /\ io.out = Err("Forbidden")
    /\ room.exists /\ room.owner # io.in.player /\ IsMember(room, io.in.player)
    /\ activeGame # 0 /\ sessions[activeGame].gameStatus = "active"
    /\ \E t \in Armed("timeout") : t.sid = activeGame

\* C18: every session has at least two participants
C18_SessionsHaveTwoParticipants ==
    \A s \in DOMAIN sessions : Cardinality(Participants(sessions[s])) >= MinPlayers

\* the game-side state a membership handler could touch
SessionState == <<activeGame, sessions>>

\* C19: a step of a join, leave or disconnect after which the room still exists
\* leaves the stored session and every session object as they were; a guess of a
\* participant that passes the checks of submit-word is appended whether or not
\* the participant is still a member of the room; and a participant becomes
\* failed only in a submit-word step that brings the guesses to MaxGuesses or in
\* a step of the countdown
C19_MembershipLeavesSessionAlone ==
    [][/\ (io'.in.op \in JoinOps \cup LeaveOps /\ room'.exists) =>
             UNCHANGED SessionState
       /\ (/\ io'.in.op = "submit-word" /\ activeGame # 0
           /\ sessions[activeGame].gameStatus = "active"
           /\ FindPlayer(sessions[activeGame], io'.in.player) # 0
           /\ Len(io'.in.word) = WordLen) =>
             LET i == FindPlayer(sessions[activeGame], io'.in.player)
                 before == sessions[activeGame].players[i]
             IN (~before.isSolved /\ Len(before.guesses) < MaxGuesses) =>
                   Len(sessions'[activeGame].players[i].guesses)
                      = Len(before.guesses) + 1
       /\ \A s \in Surviving : \A i \in DOMAIN sessions[s].players :
             (/\ sessions[s].players[i].status # "failed"
              /\ sessions'[s].players[i].status = "failed") =>
                \/ io'.in.op = "timeout"
                \/ /\ io'.in.op = "submit-word"
                   /\ Len(sessions'[s].players[i].guesses) = MaxGuesses]_vars

\* player 1 has left the room, which still exists, and a guess player 1 then
\* submitted in the session in progress was accepted
C19_Witness ==
    /\ io.in.op = "submit-word" /\ ~Emits(io.out, "error")
    /\ room.exists /\ ~IsMember(room, io.in.player)
    /\ activeGame # 0
    /\ FindPlayer(sessions[activeGame], io.in.player) # 0
    /\ Len(sessions[activeGame].players[
              FindPlayer(sessions[activeGame], io.in.player)].guesses) = 1

\* C20: a session is stored only for a room that exists
C20_SessionOnlyForExistingRoom == activeGame # 0 => room.exists

(* ---------------------------- state queries ---------------------------- *)
\* socket.on('get-game-state'): the stored gameState object itself is sent to
\* the caller, whoever the caller is
GetGameState(c) ==
    /\ conns[c].open
    /\ io' = [in |-> In("get-game-state", "call", c, conns[c].auth),
              out |-> IF activeGame # 0
                      THEN <<Ev("game-state", "caller", sessions[activeGame])>>
                      ELSE Err("NoGameFound")]
    /\ UNCHANGED <<clockVars, roomVars, gameVars>>

\* socket.on('get-leaderboard'): the leaderboard of the stored gameState is sent
\* to the caller
GetLeaderboard(c) ==
    /\ conns[c].open
    /\ io' = [in |-> In("get-leaderboard", "call", c, conns[c].auth),
              out |-> IF activeGame # 0
                      THEN <<Ev("leaderboard", "caller", sessions[activeGame].leaderboard)>>
                      ELSE Err("NoGameFound")]
    /\ UNCHANGED <<clockVars, roomVars, gameVars>>

(* ------------------------------ query runs ----------------------------- *)
\* the guesses of the query runs: player 1 guesses wrong, player 2 guesses right
QueryGuesses == {<<1, CRONE>>, <<2, CRANE>>}

\* one game of the room of two, with both connections asking for the state and
\* the leaderboard at any moment
NextQuery ==
    \/ StartLookup("start-game", PlayerConn(1), 1)
    \/ \E h \in BagToSet(handlers), w \in TargetWords : StartWord(h, w)
    \/ \E x \in QueryGuesses : SubmitWord(PlayerConn(x[1]), x[1], x[2])
    \/ \E c \in Conns : GetGameState(c)
    \/ \E c \in Conns : GetLeaderboard(c)
    \/ \E t \in BagToSet(timers) : TimeoutFires(t)
    \/ \E k \in BagToSet(pending) : EndGameResume(k)
    \/ Tick

SpecQuery == InitGame /\ [][NextQuery]_vars

(* -------------------------- secrecy properties ------------------------- *)
\* the target words an event carries
TargetsIn(e) ==
    IF e.ev \in {"game-state", "game-ended"} THEN {e.arg.targetWord} ELSE {}

\* the guessed words an event carries, each with the player who guessed it (the
\* guesser of a 'word-feedback' is the player of the request it answers)
GuessesIn(e, guesser) ==
    IF e.ev = "game-state"
    THEN UNION {{<<e.arg.players[i].playerId, w>> : w \in Range(e.arg.players[i].guesses)} :
                   i \in DOMAIN e.arg.players}
    ELSE IF e.ev = "word-feedback" THEN {<<guesser, e.arg.word>>}
    ELSE {}

\* C21: an event that carries a target word is 'game-ended', or carries the word
\* of a session that is no longer active
C21_TargetOnlyInGameEnded ==
    \A k \in DOMAIN io.out :
        TargetsIn(io.out[k]) # {} =>
            \/ io.out[k].ev = "game-ended"
            \/ io.out[k].arg.gameStatus # "active"

\* C22: an event that carries a guessed word (with or without its feedback
\* marks) is sent to its caller alone, and that caller is the connection of the
\* player who made the guess
C22_GuessOnlyToItsSubmitter ==
    \A k \in DOMAIN io.out :
        \A x \in GuessesIn(io.out[k], io.in.player) :
            io.out[k].to = "caller" /\ PlayerConn(x[1]) = io.in.conn

(* ------------------------- submit-word failures ------------------------ *)
\* the failures of submit-word
SubmitErrors ==
    {"NoActiveSession", "NotAParticipant", "AlreadySolved", "InvalidWordLength",
     "AttemptsExhausted"}

\* C23: a submit-word that is answered with an error leaves the stored session,
\* every session object (so every participant's guesses, status, times and
\* rank), the timers, the suspended finalizations and the saved games as they
\* were; the error is one of the five failures and is the only event of the
\* step, sent to the caller alone
C23_FailedSubmitChangesNothing ==
    [][(io'.in.op = "submit-word" /\ Emits(io'.out, "error")) =>
          /\ UNCHANGED <<activeGame, sessions, nextSid, timers, pending, gameRecords>>
          /\ Len(io'.out) = 1
          /\ io'.out[1].to = "caller"
          /\ io'.out[1].arg \in SubmitErrors]_vars

\* a guess of four letters was just refused in an active session in which the
\* caller had already guessed and the other player had solved
C23_Witness ==
    /\ io.in.op = "submit-word" /\ Len(io.out) = 1 /\ io.out[1].ev = "error"
    /\ io.out[1].arg = "InvalidWordLength"
    /\ activeGame # 0 /\ sessions[activeGame].gameStatus = "active"
    /\ \E i, j \in DOMAIN sessions[activeGame].players :
          /\ sessions[activeGame].players[i].playerId = io.in.player
          /\ Len(sessions[activeGame].players[i].guesses) > 0
          /\ sessions[activeGame].players[j].status = "solved"

(* ----------------------------- ranking runs ---------------------------- *)
\* a room of three: a game on CRANE has just started, nothing guessed yet
InitRank ==
    /\ now = 0
    /\ room = [exists |-> TRUE, players |-> <<1, 2, 3>>, owner |-> 1]
    /\ conns = [c \in Conns |-> IF c = "s1" THEN OpenConn(1) ELSE OpenConn(2)]
    /\ roomSockets = Conns
    /\ playerSockets = [p \in UserIds |->
                          IF p = 1 THEN "s1" ELSE IF p = 2 THEN "s2" ELSE NoConn]
    /\ handlers = EmptyBag
    /\ activeGame = 1
    /\ sessions = (1 :> NewGame(CRANE, <<1, 2, 3>>, 0))
    /\ nextSid = 2
    /\ timers = startGameTimer(EmptyBag, 1, 0)
    /\ pending = EmptyBag
    /\ gameRecords = [s \in 1..MaxSessions |-> 0]
    /\ io = [in |-> In("start-game", "word", "s1", 1),
             out |-> <<Ev("game-started", "room", [players |-> <<1, 2, 3>>, sid |-> 1])>>]
    /\ calls = 0

\* the guesses of the ranking runs: player 2 guesses right, player 3 guesses
\* wrong or right, player 1 never guesses
RankGuesses == {<<2, CRANE>>, <<3, CRONE>>, <<3, CRANE>>}

NextRank ==
    \/ \E x \in RankGuesses : SubmitWord(PlayerConn(x[1]), x[1], x[2])
    \/ \E t \in BagToSet(timers) : TimeoutFires(t)
    \/ \E k \in BagToSet(pending) : EndGameResume(k)
    \/ Tick

SpecRank == InitRank /\ [][NextRank]_vars

(* ------------------------- leaderboard properties ---------------------- *)
\* the leaderboards an event carries
LeaderboardsIn(e) ==
    IF e.ev \in {"leaderboard-update", "leaderboard"} THEN {e.arg}
    ELSE IF e.ev = "game-ended" THEN {e.arg.leaderboard}
    ELSE {}

\* the leaderboards sent in the last step
LeaderboardsSent == UNION {LeaderboardsIn(io.out[k]) : k \in DOMAIN io.out}

\* row a is better than row b by (solveTime, solveAttempts)
SolvedBefore(a, b) ==
    \/ a.solveTime < b.solveTime
    \/ a.solveTime = b.solveTime /\ a.solveAttempts < b.solveAttempts

\* C24: in every leaderboard sent (live or final), a solved row has a smaller
\* rank than a failed row, and of two solved rows the one with the smaller
\* (solveTime, solveAttempts) has the smaller rank
C24_SolvedFirstBySolveTime ==
    \A lb \in LeaderboardsSent : \A a, b \in DOMAIN lb :
        /\ (lb[a].status = "solved" /\ lb[b].status = "failed") =>
              lb[a].rank < lb[b].rank
        /\ (lb[a].status = "solved" /\ lb[b].status = "solved"
              /\ SolvedBefore(lb[a], lb[b])) => lb[a].rank < lb[b].rank

\* the rows of a leaderboard that are ranked (solved or failed)
RankedRows(lb) == {k \in DOMAIN lb : lb[k].status # "active"}

\* C26: a live leaderboard sent while the session is active has one row per
\* participant; the row of each active participant has a null rank and comes
\* after every ranked row; and the ranks of the solved and failed rows are
\* exactly 1..k, each once, where k is the number of participants that are
\* not active
C26_LiveRanksActiveUnranked ==
    \A n \in DOMAIN io.out :
        (/\ io.out[n].ev = "leaderboard-update"
         /\ activeGame # 0 /\ sessions[activeGame].gameStatus = "active") =>
           LET lb == io.out[n].arg
               ps == sessions[activeGame].players
               k == Cardinality({i \in DOMAIN ps : ps[i].status # "active"})
           IN /\ Len(lb) = Len(ps)
              /\ \A i \in DOMAIN ps :
                    \E r \in DOMAIN lb :
                       /\ lb[r].playerId = ps[i].playerId
                       /\ lb[r].status = ps[i].status
              /\ \A r \in DOMAIN lb : lb[r].status = "active" =>
                    /\ lb[r].rank = Null
                    /\ \A q \in RankedRows(lb) : q < r
              /\ Cardinality(RankedRows(lb)) = k
              /\ \A v \in 1..k :
                    Cardinality({r \in RankedRows(lb) : lb[r].rank = v}) = 1

\* a live leaderboard with a solved row, a failed row and an active row was just
\* sent: player 3 used six guesses, player 2 solved, player 1 is still guessing
C26_Witness ==
    /\ activeGame # 0 /\ sessions[activeGame].gameStatus = "active"
    /\ pending = EmptyBag
    /\ \E n \in DOMAIN io.out :
          /\ io.out[n].ev = "leaderboard-update"
          /\ \E a, b, c \in DOMAIN io.out[n].arg :
                /\ io.out[n].arg[a].status = "solved" /\ io.out[n].arg[a].rank = 1
                /\ io.out[n].arg[b].status = "failed" /\ io.out[n].arg[b].rank = 2
                /\ io.out[n].arg[c].status = "active" /\ io.out[n].arg[c].rank = Null
                /\ a < b /\ b < c

\* the participant of session g that a leaderboard row is about
PlayerOfRow(g, row) == g.players[FindPlayer(g, row.playerId)]

\* C25: in the leaderboard of a finished session, of two failed participants with
\* different failure times the one who failed later has the smaller rank
C25_FailedByDescendingTime ==
    \A s \in DOMAIN sessions :
        sessions[s].gameStatus = "finished" =>
            LET lb == sessions[s].leaderboard
            IN \A a, b \in DOMAIN lb :
                  (/\ lb[a].status = "failed" /\ lb[b].status = "failed"
                   /\ PlayerOfRow(sessions[s], lb[a]).failedTime
                        > PlayerOfRow(sessions[s], lb[b]).failedTime) =>
                     lb[a].rank < lb[b].rank

(* -------------------------- clean-up properties ------------------------ *)
\* C27: the clean-up timer removes the stored session no earlier than GraceMs
\* after that session was finalized.  A session is finalized no earlier than it is
\* started, so a removal is in any case no earlier than GraceMs after the
\* session's start
C27_CleanupNotBeforeGrace ==
    [][(io'.in.op = "cleanup" /\ activeGame # 0 /\ activeGame' = 0) =>
          now >= sessions[activeGame].gameStartTime + GraceMs]_vars

(* ------------------------- participant properties ---------------------- *)
\* C28: for every participant of every session, isSolved holds exactly when the
\* status is solved; and a participant who becomes failed, or guesses and is
\* failed afterwards, in a step that is not a step of the countdown has exactly
\* MaxGuesses guesses
C28_SolvedIffStatusFailedAtSix ==
    /\ [](\A s \in DOMAIN sessions : \A i \in DOMAIN sessions[s].players :
             sessions[s].players[i].isSolved
                <=> sessions[s].players[i].status = "solved")
    /\ [][\A s \in Surviving : \A i \in DOMAIN sessions[s].players :
             (/\ sessions'[s].players[i].status = "failed"
              /\ \/ sessions[s].players[i].status # "failed"
                 \/ sessions'[s].players[i].guesses # sessions[s].players[i].guesses
              /\ io'.in.op # "timeout") =>
                Len(sessions'[s].players[i].guesses) = MaxGuesses]_vars

\* player 1 has just failed on a sixth wrong guess while player 2 had solved
C28_Witness ==
    /\ io.in.op = "submit-word" /\ Emits(io.out, "player-failed")
    /\ \E s \in DOMAIN sessions : \E i, j \in DOMAIN sessions[s].players :
          /\ sessions[s].players[i].playerId = io.in.player
          /\ sessions[s].players[i].status = "failed"
          /\ ~sessions[s].players[i].isSolved
          /\ Len(sessions[s].players[i].guesses) = MaxGuesses
          /\ sessions[s].players[j].status = "solved"
          /\ sessions[s].players[j].isSolved

(* --------------------------- restart properties ------------------------ *)
\* C29: the step of start-again that stores the new session stores an object that
\* was not a session before, with status active and one fresh participant per
\* member of the room, in the order of the room; the session stored before is no
\* longer stored, and no session object that was finished becomes active
C29_RestartStoresFreshSession ==
    [][(/\ io'.in.op = "start-again" /\ io'.in.step = "word"
        /\ ~Emits(io'.out, "error")) =>
          /\ activeGame' # 0 /\ activeGame' \notin DOMAIN sessions
          /\ sessions'[activeGame'].gameStatus = "active"
          /\ sessions'[activeGame'].players =
                [i \in DOMAIN room'.players |-> NewPlayer(room'.players[i])]
          /\ \A s \in Surviving : sessions[s].gameStatus = "finished" =>
                sessions'[s].gameStatus = "finished"]_vars

(* ------------------------ finalization properties ---------------------- *)
\* finalization of the stored session has begun: an endGame call on it is
\* suspended on Player.find, or it is finished
FinalizationBegun ==
    /\ activeGame # 0
    /\ \/ sessions[activeGame].gameStatus = "finished"
       \/ \E k \in BagToSet(pending) : k.sid = activeGame

\* C30: a submit-word that arrives after the finalization of the stored session
\* has begun is answered NoActiveSession and leaves every session object as it was
C30_NoGuessAfterFinalizationBegun ==
    [][(io'.in.op = "submit-word" /\ FinalizationBegun) =>
          /\ io'.out = Err("NoActiveSession")
          /\ sessions' = sessions]_vars

(* ------------------------- session start properties -------------------- *)
\* the step stores a session and announces it
SessionStored ==
    /\ io'.in.op \in StartOps /\ io'.in.step = "word"
    /\ Emits(io'.out, "game-started")

\* C31: in the step of start-game or start-again that stores a session and
\* broadcasts 'game-started', the room exists, the participants of the stored
\* session are exactly the members of the room, and the player who asked is the
\* owner of the room
C31_SnapshotIsMembershipAtStore ==
    [][SessionStored =>
          /\ room'.exists
          /\ Participants(sessions'[activeGame']) = Range(room'.players)
          /\ room'.owner = io'.in.player]_vars

(* ------------------------- persistence properties ---------------------- *)
\* C32: an 'owner-changed' event names the owner the stored room records at the
\* moment it is sent, and a 'player-left' or 'player-disconnected' event is sent
\* only by a handler whose write of the roster has been saved
C32_BroadcastAfterPersist ==
    [][\A n \in DOMAIN io'.out :
          /\ io'.out[n].ev = "owner-changed" =>
                room'.exists /\ room'.owner = io'.out[n].arg
          /\ io'.out[n].ev \in {"player-left", "player-disconnected"} =>
                /\ room'.exists
                /\ io'.in.step = "reload"]_vars

\* the step belongs to a start-game or start-again call and stores no session: the
\* room read with its checks, after which the call waits for the word service,
\* or the failure of the word service
StartStepWithoutSession ==
    /\ io'.in.op \in StartOps
    /\ ~Emits(io'.out, "game-started")

\* C33: a start-game or start-again call whose word service fails answers the
\* caller alone and leaves the stored session, the session objects and the
\* timers as they were before the call.  The call is two steps, the room read
\* and the failure, and no third handler is bound to act between them, so
\* both steps must leave them unchanged
C33_FailedStartChangesNothing ==
    [][StartStepWithoutSession =>
          /\ UNCHANGED <<activeGame, sessions, timers>>
          /\ \A n \in DOMAIN io'.out : io'.out[n].to = "caller"]_vars

(* --------------------------- event properties -------------------------- *)
\* the place of the first event of that name among the events out, or 0
PlaceOf(out, name) ==
    IF Emits(out, name)
    THEN CHOOSE k \in DOMAIN out :
            out[k].ev = name /\ \A j \in DOMAIN out : out[j].ev = name => k <= j
    ELSE 0

\* the session started last
NewestSession == nextSid - 1

\* C34: in a step that announces a solve or a failure, the announcement comes
\* before the 'leaderboard-update', and the session it is about has not been
\* announced as ended before; and a 'game-ended' is about the session started
\* last, never about an older one
C34_EventsInCausalOrder ==
    [][/\ \A name \in {"word-solved", "player-failed"} :
             Emits(io'.out, name) =>
                /\ Emits(io'.out, "leaderboard-update")
                /\ PlaceOf(io'.out, name) < PlaceOf(io'.out, "leaderboard-update")
                /\ ~Emits(io'.out, "game-ended")
       /\ \A n \in DOMAIN io'.out :
             io'.out[n].ev = "game-ended" => io'.out[n].arg.sid = NewestSession]_vars

(* --------------------------- tick properties --------------------------- *)
\* C35: a 'timer-update' is broadcast only while a session is stored for the
\* room and active, and it reports the remaining time of that session
C35_TicksOfActiveSessionOnly ==
    [][\A n \in DOMAIN io'.out :
          io'.out[n].ev = "timer-update" =>
             /\ activeGame # 0
             /\ sessions[activeGame].gameStatus = "active"
             /\ io'.out[n].arg.sid = activeGame
             /\ io'.out[n].arg.timeLeft
                   = TimeLimit - (now - sessions[activeGame].gameStartTime)]_vars

(* --------------------------- connection runs --------------------------- *)
\* a room of one or two players; player 1, its owner, is authenticated and
\* subscribed on s1; s2 is open and has sent nothing yet
InitConn ==
    /\ now = 0
    /\ room \in {RoomOf(1), RoomOf(2)}
    /\ conns = [c \in Conns |-> IF c = "s1" THEN OpenConn(1)
                                ELSE [open |-> TRUE, auth |-> NoPlayer, joined |-> FALSE]]
    /\ roomSockets = {"s1"}
    /\ playerSockets = [p \in UserIds |-> IF p = 1 THEN "s1" ELSE NoConn]
    /\ handlers = EmptyBag
    /\ activeGame = 0
    /\ sessions = <<>>
    /\ nextSid = 1
    /\ timers = EmptyBag
    /\ pending = EmptyBag
    /\ gameRecords = [s \in 1..MaxSessions |-> 0]
    /\ io = [in |-> In("init", "call", NoConn, NoPlayer), out |-> <<>>]
    /\ calls = 0

\* s2 authenticates and joins as player 1 (a second connection of that player) or
\* as player 2; either connection closes
NextConn ==
    \/ \E p \in {1, 2} : Authenticate("s2", p)
    \/ \E p \in {1, 2} : JoinLookup("join-room", "s2", p)
    \/ \E h \in BagToSet(handlers) : JoinSave(h)
    \/ \E h \in BagToSet(handlers) : JoinReload(h)
    \/ \E c \in Conns : Disconnect(c)
    \/ \E h \in BagToSet(handlers) : DisconnectLookup(h)
    \/ \E h \in BagToSet(handlers), k \in 0..MaxRoomPlayers : LeaveDoc(h, k)
    \/ \E h \in BagToSet(handlers) : LeaveDelete(h)
    \/ \E h \in BagToSet(handlers) : LeaveSave(h)
    \/ \E h \in BagToSet(handlers) : LeaveReload(h)

SpecConn == InitConn /\ [][NextConn]_vars

(* ------------------------- connection properties ----------------------- *)
\* the step is of the disconnect of a connection that had joined the room and
\* whose player has a newer connection: the player's mapping, written by the
\* join made last, points at a connection other than the one that closed
Superseded ==
    /\ io'.in.op = "disconnect"
    /\ io'.in.player # NoPlayer
    /\ io'.in.step # "call" \/ io'.in.conn \in roomSockets
    /\ playerSockets[io'.in.player] \notin {NoConn, io'.in.conn}

\* C36: a step of the disconnect of a connection whose player has a newer
\* connection leaves the player's mapping as it was and, when the player is a
\* member of the room, leaves the player a member
C36_OldConnectionCloseKeepsPlayer ==
    [][Superseded =>
          /\ playerSockets'[io'.in.player] = playerSockets[io'.in.player]
          /\ (room.exists /\ IsMember(room, io'.in.player)) =>
                (room'.exists /\ IsMember(room', io'.in.player))]_vars

\* the disconnect handler of connection c has run to its end
ClosedAndDone(c) ==
    /\ ~conns[c].open
    /\ \A h \in BagToSet(handlers) : ~(h.op = "disconnect" /\ h.conn = c)

\* C37: once a connection has closed and its disconnect handler has ended, the
\* connection is not in the room's subscriber set and no player mapped to it is
\* a member of the room
C37_ClosedConnectionHasLeft ==
    \A c \in Conns :
        ClosedAndDone(c) =>
            /\ c \notin roomSockets
            /\ \A p \in UserIds :
                  playerSockets[p] = c => ~(room.exists /\ IsMember(room, p))


(* ---------------------------- departure runs ---------------------------- *)
\* a room of two or three players, players 1 and 2 joined and authenticated on
\* their connections; the owner starts games while players leave or disconnect
InitDepart ==
    /\ now = 0
    /\ room \in {RoomOf(2), RoomOf(3)}
    /\ conns = [c \in Conns |-> IF c = "s1" THEN OpenConn(1) ELSE OpenConn(2)]
    /\ roomSockets = Conns
    /\ playerSockets = [p \in UserIds |->
                          IF p = 1 THEN "s1" ELSE IF p = 2 THEN "s2" ELSE NoConn]
    /\ handlers = EmptyBag
    /\ activeGame = 0
    /\ sessions = <<>>
    /\ nextSid = 1
    /\ timers = EmptyBag
    /\ pending = EmptyBag
    /\ gameRecords = [s \in 1..MaxSessions |-> 0]
    /\ io = [in |-> In("init", "call", NoConn, NoPlayer), out |-> <<>>]
    /\ calls = 0

NextDepart ==
    \/ \E p \in {1, 2} : LeaveLookup(PlayerConn(p), p)
    \/ \E c \in Conns : Disconnect(c)
    \/ \E h \in BagToSet(handlers) : DisconnectLookup(h)
    \/ \E h \in BagToSet(handlers), k \in 0..MaxRoomPlayers : LeaveDoc(h, k)
    \/ \E h \in BagToSet(handlers) : LeaveDelete(h)
    \/ \E h \in BagToSet(handlers) : LeaveSave(h)
    \/ \E h \in BagToSet(handlers) : LeaveReload(h)
    \/ StartLookup("start-game", PlayerConn(1), 1)
    \/ \E h \in BagToSet(handlers), w \in TargetWords : StartWord(h, w)
    \/ \E h \in BagToSet(handlers) : StartWordFails(h)
    \/ \E t \in BagToSet(timers) : TimeoutFires(t)
    \/ \E k \in BagToSet(pending) : EndGameResume(k)
    \/ Tick

SpecDepart == InitDepart /\ [][NextDepart]_vars

(* ------------------------- departure properties ------------------------- *)
\* the members of room r without player pid, in their order
MembersWithout(r, pid) == SelectSeq(r.players, LAMBDA p : p # pid)

\* the handlers that can be taking the step recorded in io'
Stepping == {h \in BagToSet(handlers) :
                /\ h.op = io'.in.op /\ h.pc = io'.in.step
                /\ h.conn = io'.in.conn /\ h.player = io'.in.player}

\* what a departure step does to the room record and the session map, stated
\* without reference to the operation that takes it
DepartureEffect ==
    CASE io'.in.step = "delete" ->
            room' = NoRoom /\ activeGame' = 0
      [] io'.in.step = "save" ->
            /\ UNCHANGED <<activeGame, sessions>>
            /\ \/ UNCHANGED room
               \/ \E h \in Stepping :
                    LET change == h.isOwner /\ h.remaining # <<>>
                    IN /\ room'.exists
                       /\ room'.players = MembersWithout(room, h.player)
                       /\ room'.owner = IF change THEN h.doc.owner ELSE room.owner
                       /\ change => h.doc.owner \in Range(h.remaining)
      [] io'.in.step = "doc" ->
            /\ UNCHANGED <<room, activeGame, sessions>>
            /\ \A n \in DOMAIN io'.out : io'.out[n].ev = "owner-changed" =>
                  /\ \E h \in Stepping : io'.out[n].arg \in Range(h.remaining)
                  /\ \E h \in BagToSet(handlers') :
                        /\ h.op = io'.in.op /\ h.player = io'.in.player
                        /\ h.pc \in {"save", "delete"}
                        /\ h.doc.owner = io'.out[n].arg
      [] OTHER -> UNCHANGED <<room, activeGame, sessions>>

TimeoutFinalizes == io'.in.op = "timeout" /\ activeGame # 0

\* C39: finalization by timeout changes only the participants that are still
\* active: each becomes failed with the elapsed time as failure time and with
\* solveAttempts equal to the number of guesses, or 6 if there are none; a
\* participant already solved or failed keeps status, times and attempts
C39_TimeoutFailsOnlyActive ==
    [][TimeoutFinalizes =>
          LET g == sessions[activeGame]
              after == sessions'[activeGame]
              elapsed == now - g.gameStartTime
          IN /\ DOMAIN after.players = DOMAIN g.players
             /\ \A i \in DOMAIN g.players :
                  LET p == g.players[i]
                      q == after.players[i]
                  IN /\ q.playerId = p.playerId /\ q.guesses = p.guesses
                     /\ q.isSolved = p.isSolved
                     /\ IF p.status = "active"
                        THEN /\ q.status = "failed"
                             /\ q.failedTime = elapsed
                             /\ q.solveAttempts = IF Len(p.guesses) = 0 THEN MaxGuesses
                                                  ELSE Len(p.guesses)
                        ELSE /\ q.status = p.status
                             /\ q.solveTime = p.solveTime
                             /\ q.failedTime = p.failedTime
                             /\ q.solveAttempts = p.solveAttempts]_vars

\* the countdown fired on a session in which player 2 had solved at once and
\* player 1 had guessed wrong once: player 1 is failed at the time limit with one
\* attempt, player 2 keeps its solve
C39_Witness ==
    /\ io.in.op = "timeout" /\ activeGame # 0
    /\ LET ps == sessions[activeGame].players
       IN /\ ps[1].status = "failed" /\ Len(ps[1].guesses) = 1
          /\ ps[1].solveAttempts = 1 /\ ps[1].failedTime = TimeLimit
          /\ ps[2].status = "solved" /\ ps[2].solveTime = 0 /\ ps[2].solveAttempts = 1


\* the clean-up scheduled by a finalization fires while the session stored for
\* the room is active
CleanupDuringActive ==
    /\ io'.in.op = "cleanup"
    /\ activeGame # 0 /\ sessions[activeGame].gameStatus = "active"

\* C40: the clean-up scheduled at a finalization never removes an active
\* session: when it fires after a restart, while the new session is active, the
\* entry of the session map and the session are left as they are
C40_CleanupKeepsActiveSession ==
    [][CleanupDuringActive => UNCHANGED <<activeGame, sessions>>]_vars

\* the clean-up of the first session fired after the room was restarted: the
\* second session is stored and active
C40_Witness ==
    /\ io.in.op = "cleanup"
    /\ activeGame = 2 /\ sessions[activeGame].gameStatus = "active"
    /\ gameRecords[1] > 0

====
